---- MODULE Spec2Model ----
(***************************************************************************)
(* Model of the Hello Fairy BLE protocol client                            *)
(* (custom_components/hello_fairy_ble): HelloFairyAPI in api.py and the    *)
(* push/pull snapshot of HelloFairyCoordinator in coordinator.py.          *)
(*                                                                         *)
(* The API runs on one asyncio event loop.  Every stretch of code between  *)
(* two awaits that really suspend (connection set-up, write_gatt_char,     *)
(* asyncio.sleep) is one atomic action; the notification handler has no    *)
(* await and is one atomic action.  Several callers may be inside the API  *)
(* at once: the code holds no lock.                                        *)
(*                                                                         *)
(* An Optional value is a sequence: <<>> is None, <<x>> is x.              *)
(* A byte string or list is a sequence of 0..255; Python's data[i] is      *)
(* At(data, i).                                                            *)
(***************************************************************************)
EXTENDS Integers, Sequences, FiniteSets, TLC

\* ------------------------------------------------------------------ bounds
\* Spec: one caller at a time.  The number of operations it invokes one after
\* the other, and the number of notifications the device delivers.
MaxCalls == 2
MaxNotifs == 2
\* SpecNotify: one caller, every notification shape.  The number of operations
\* and of notifications.
NotifyCalls == 1
NotifyNotifs == 2
\* SpecArgs: one caller, arguments of every kind.  The number of operations
\* and of notifications.
ArgCalls == 2
ArgNotifs == 2
\* SpecPair: two concurrent callers.  The number of operations each invokes,
\* the number of notifications, and the number of sleeps of the ack wait
\* (shortened there: the product of two full waits is out of reach).
PairCalls == 1
PairNotifs == 2
PairSlices == 3
\* SpecFair: two concurrent callers on a fair event loop, with the same three
\* kinds of bound.
FairCalls == 1
FairNotifs == 2
FairSlices == 2

\* The coroutines that may call the API concurrently.
Callers == {"A", "B"}

\* ------------------------------------------------------- const.py constants
CMD_PREFIX == 170
CMD_POWER == 2
CMD_COLOR_PRESET == 3
MODE_COLOR == 1
MODE_PRESET == 2

EffectNames ==
    {"Blue White Dissolve", "Blue Sparkle", "White Sparkle",
     "Blue with Pink Sparkle", "Fireworks", "Xmas", "Candy Cane", "Halloween",
     "Red Gold", "July 4th", "Valentine", "St. Patrick", "May Day", "Snow Day"}

EFFECT_PRESETS ==
    [n \in EffectNames |->
        CASE n = "Blue White Dissolve" -> 41
          [] n = "Blue Sparkle" -> 56
          [] n = "White Sparkle" -> 57
          [] n = "Blue with Pink Sparkle" -> 8
          [] n = "Fireworks" -> 17
          [] n = "Xmas" -> 18
          [] n = "Candy Cane" -> 50
          [] n = "Halloween" -> 20
          [] n = "Red Gold" -> 40
          [] n = "July 4th" -> 39
          [] n = "Valentine" -> 46
          [] n = "St. Patrick" -> 47
          [] n = "May Day" -> 48
          [] n = "Snow Day" -> 54]

\* --------------------------------------------------------- Python helpers
None == <<>>
Some(x) == <<x>>
IsNone(o) == o = <<>>
Val(o) == o[1]

\* data[i] of a Python sequence (0-based).
At(data, i) == data[i + 1]

Min(a, b) == IF a < b THEN a ELSE b
Max(a, b) == IF a > b THEN a ELSE b

\* int(a / b) for b > 0: Python's int() truncates toward zero.
TruncDiv(a, b) == IF a >= 0 THEN a \div b ELSE -((-a) \div b)

\* x >> 8 and x & 0xFF for x >= 0.
Hi(x) == x \div 256
Lo(x) == x % 256

RECURSIVE SumSeq(_)
SumSeq(s) == IF s = <<>> THEN 0 ELSE s[1] + SumSeq(Tail(s))

\* A checksum that is the plain sum.
CalculateChecksum_NoMod(data) == SumSeq(data)

\* api.py _calculate_checksum: sum(data) % 256.
CalculateChecksum(data) == SumSeq(data) % 256

\* command.append(checksum) in _send_command.
WithChecksum(command) == Append(command, CalculateChecksum(command))

\* max(lo, min(hi, x)).
Clamp(lo, hi, x) == Max(lo, Min(hi, x))

\* `not self.state`: true for None and False.
NotOn(st) == IsNone(st) \/ Val(st) = FALSE

\* `self.brightness or 50`: 50 for None and for 0.
BrightnessOr50(br) == IF IsNone(br) \/ Val(br) = 0 THEN 50 ELSE Val(br)

\* colorsys.hsv_to_rgb(h/360, s/100, v/100) followed by int(c * 255) for each
\* channel, in exact integer arithmetic (h, s, v integers).  The code works in
\* binary floating point, which differs from the exact value by one unit on
\* about 0.03% of the triples with h in 0..359, s, v in 0..100; the triples the
\* model uses are ones where both agree.
HsvToRgb(h, s, v) ==
    LET i == (h \div 60) % 6
        f == h % 60
        cv == TruncDiv(255 * v, 100)
        p == TruncDiv(255 * v * (100 - s), 10000)
        q == TruncDiv(255 * v * (6000 - s * f), 600000)
        t == TruncDiv(255 * v * (6000 - s * (60 - f)), 600000)
    IN  IF s = 0 THEN <<cv, cv, cv>>
        ELSE CASE i = 0 -> <<cv, t, p>>
               [] i = 1 -> <<q, cv, p>>
               [] i = 2 -> <<p, cv, t>>
               [] i = 3 -> <<p, q, cv>>
               [] i = 4 -> <<t, p, cv>>
               [] i = 5 -> <<cv, p, q>>

\* colorsys.rgb_to_hsv(r/255, g/255, b/255) followed by int(h * 360),
\* int(s * 100) and the brightness substitution of set_color_rgb, in exact
\* integer arithmetic; br is self.brightness (an Optional).
RgbToHsvArgs(r, g, b, br) ==
    LET maxc == Max(r, Max(g, b))
        minc == Min(r, Min(g, b))
        rangec == maxc - minc
        num == IF r = maxc THEN g - b
               ELSE IF g = maxc THEN 2 * rangec + (b - r)
               ELSE 4 * rangec + (r - g)
        h_deg == IF rangec = 0 THEN 0
                 ELSE ((60 * num) % (360 * rangec)) \div rangec
        s_pct == IF rangec = 0 THEN 0 ELSE (100 * rangec) \div maxc
        v_pct == IF maxc > 0 THEN (100 * maxc) \div 255 ELSE BrightnessOr50(br)
    IN  <<h_deg, s_pct, v_pct>>

\* ------------------------------------------------------------ the frames
\* set_power: [CMD_PREFIX, CMD_POWER, 0x01, 0x01 if state else 0x00].
PowerCommand(on) == <<CMD_PREFIX, CMD_POWER, 1, IF on THEN 1 ELSE 0>>

\* A set_color_hsv that passes its arguments on as they are.
ClampHsv_Unclamped(h, s, v) == <<h, s, v>>

\* set_color_hsv: the clamped arguments and the command built from them.
ClampHsv(h, s, v) == <<Clamp(0, 359, h), Clamp(0, 100, s), Clamp(0, 100, v)>>

ColorCommand(h, s, v) ==
    <<CMD_PREFIX, CMD_COLOR_PRESET, 7, MODE_COLOR,
      Hi(h), Lo(h), Hi(s * 10), Lo(s * 10), Hi(v * 10), Lo(v * 10)>>

\* set_preset: the clamped preset id and the command.
ClampPreset(p) == Clamp(1, 58, p)

PresetCommand(preset, bright) ==
    <<CMD_PREFIX, CMD_COLOR_PRESET, 4, MODE_PRESET, preset,
      Hi(bright * 10), Lo(bright * 10)>>

\* ------------------------------------------------------------ the inputs
\* A status-shaped notification of n bytes: byte 6 is b6, byte 7 is b7, the
\* bytes from 8 on are payload (padded with zeros), bytes 0..5 are zero.
StatusFrame(n, b6, b7, payload) ==
    [i \in 1..n |->
        IF i = 7 THEN b6
        ELSE IF i = 8 THEN b7
        ELSE IF i > 8 /\ i - 8 <= Len(payload) THEN payload[i - 8]
        ELSE 0]

\* const.py ACK2: the acknowledgement of a power command.
ACK2 == <<170, 2, 0, 172>>

\* The well-formed notifications: an ack, power off, color and preset status.
MainFrames ==
    { ACK2,
      StatusFrame(12, 0, 0, <<>>),
      StatusFrame(14, 1, 1, <<0, 45, 0, 250, 1, 244>>),
      StatusFrame(12, 1, 2, <<17, 2, 188>>) }

\* Notifications of every shape the handler tells apart.
NotifFrames ==
    { ACK2,
      <<1, 2, 3, 4>>,
      <<170, 9, 0>>,
      StatusFrame(11, 1, 2, <<17, 1, 244>>),
      StatusFrame(12, 0, 0, <<>>),
      StatusFrame(12, 2, 1, <<>>),
      StatusFrame(14, 1, 1, <<0, 45, 0, 250, 1, 244>>),
      StatusFrame(12, 1, 1, <<0, 45, 0, 250>>),
      StatusFrame(13, 1, 1, <<0, 45, 0, 250, 1>>),
      StatusFrame(12, 1, 2, <<17, 2, 188>>),
      StatusFrame(12, 1, 3, <<>>) }

\* The arguments the callers pass.
PairHsvInputs == {<<45, 25, 50>>}
HsvInputs == {<<45, 25, 50>>, <<-5, 120, 0>>}
RgbInputs == {<<0, 0, 0>>, <<10, 200, 30>>}
BrightnessInputs == {150}
PresetInputs == {0, 99}
EffectInputs == {"Fireworks", "NoSuchName"}

\* SpecArgs: arguments in range, at the ends of the ranges and outside them;
\* every name of the catalog and one that is not in it.
ArgHsvInputs ==
    {<<45, 25, 50>>, <<-5, 120, 0>>, <<400, -3, 101>>, <<359, 100, 100>>,
     <<240, 50, 30>>}
ArgRgbInputs == {<<0, 0, 0>>, <<10, 200, 30>>, <<255, 255, 255>>}
ArgBrightnessInputs == {30, 150}
ArgPresetInputs == {0, 1, 17, 58, 99}
ArgEffectInputs == EffectNames \cup {"NoSuchName"}

\* ------------------------------------------------------------- the state
\* The number of 0.1 s sleeps after which `elapsed < timeout` (timeout = 5.0)
\* first fails.  elapsed is a double that starts at 0.0 and grows by 0.1 per
\* sleep: after 50 additions it is 4.999999999999998, still below 5.0, so the
\* loop sleeps a 51st time.
PollSlices == 51


VARIABLES
    client,          \* self._client: "None", "disconnected" (a client that is
                     \* not connected), "connected" (start_notify not done),
                     \* "notifying" (connected and subscribed)
    ack_received,    \* self._ack_received
    state,           \* self.state: Optional BOOLEAN
    brightness,      \* self.brightness: Optional 0..100
    color,           \* self.color: Optional <<r, g, b>>
    hsv,             \* self.hsv: Optional <<h, s, v>>
    current_preset,  \* self.current_preset: Optional preset id
    mode,            \* self.mode: Optional mode byte
    data,            \* coordinator.data: the last HelloFairyApiData pushed
                     \* by the update callback (_async_push_data)
    pushes,          \* number of invocations of the update callback
    task,            \* per caller: where its coroutine stands, and its locals
    notified,        \* the last notification handled, and whether the
                     \* handler raised on it (None before the first)
    timeout,         \* the ack wait's budget, in 0.1 s sleeps
    calls_left,      \* per caller: operations it may still invoke
    notifs_left      \* notifications the device may still deliver

devvars == <<state, brightness, color, hsv, current_preset, mode>>
vars == <<client, ack_received, state, brightness, color, hsv, current_preset,
          mode, data, pushes, notified, task, timeout, calls_left,
          notifs_left>>

\* HelloFairyApiData(state=..., brightness=..., ...) of the given field values.
ApiData(st, br, co, hs, cp, mo) ==
    [state |-> st, brightness |-> br, color |-> co, hsv |-> hs,
     current_preset |-> cp, mode |-> mo]

\* The snapshot of the API's current fields.
Snapshot == ApiData(state, brightness, color, hsv, current_preset, mode)

\* A coroutine that has not called the API yet.
\*   pc       where the coroutine is suspended ("idle": outside the API)
\*   call     the method invoked (kept after it returns)
\*   op       the command pipeline it runs: "power", "color" or "preset"
\*   arg      the method's locals: <<state>>, <<h, s, v>>, <<preset>> and,
\*            once the command is built, <<preset, brightness>>
\*   off      `not self.state` as set_color_hsv / set_preset found it on entry
\*   inner    it is inside the set_power(True) of set_color_hsv / set_preset
\*   cmd      the command list of _send_command
\*   elapsed  the wait loop's elapsed, in 0.1 s sleeps
\*   result   how the last invocation ended: "ok" or the exception raised
\*   log      what the invocation has done so far: the frames written, the
\*            acknowledged commands, the settle delay
\*   ack_seen a 4-byte notification has been delivered since the last frame
\*            of the invocation went to the link
NoTask ==
    [pc |-> "idle", call |-> "none", op |-> "none", arg |-> <<>>,
     off |-> FALSE, inner |-> FALSE, cmd |-> <<>>, elapsed |-> 0,
     result |-> "none", log |-> <<>>, ack_seen |-> FALSE]

\* The coroutine on entry to method `call`.
Enter(call, op, arg) == [NoTask EXCEPT !.call = call, !.op = op, !.arg = arg]

\* The coroutine after the method returned ("ok") or raised.
Return(t, result) ==
    [NoTask EXCEPT !.call = t.call, !.off = t.off, !.result = result,
                   !.log = t.log, !.ack_seen = t.ack_seen]

\* The entries of a log.
Written(frame) == [ev |-> "write", frame |-> frame]
Acked == [ev |-> "acked", frame |-> <<>>]
Settled == [ev |-> "settled", frame |-> <<>>]

\* The frames an invocation has written to the link, in order.
RECURSIVE Frames(_)
Frames(log) ==
    IF log = <<>> THEN <<>>
    ELSE IF log[1].ev = "write" THEN <<log[1].frame>> \o Frames(Tail(log))
    ELSE Frames(Tail(log))

InitApi ==
    /\ client = "None"
    /\ ack_received = TRUE
    /\ state = None
    /\ brightness = None
    /\ color = None
    /\ hsv = None
    /\ current_preset = None
    /\ mode = None
    /\ data = ApiData(None, None, None, None, None, None)
    /\ pushes = 0
    /\ notified = None
    /\ task = [c \in Callers |-> NoTask]

\* One caller: operations are invoked one after the other.
Init ==
    /\ InitApi
    /\ timeout = PollSlices
    /\ calls_left = [c \in Callers |-> IF c = "A" THEN MaxCalls ELSE 0]
    /\ notifs_left = MaxNotifs

\* One caller, every notification shape.
InitNotify ==
    /\ InitApi
    /\ timeout = PollSlices
    /\ calls_left = [c \in Callers |-> IF c = "A" THEN NotifyCalls ELSE 0]
    /\ notifs_left = NotifyNotifs

\* One caller, arguments of every kind.
InitArgs ==
    /\ InitApi
    /\ timeout = PollSlices
    /\ calls_left = [c \in Callers |-> IF c = "A" THEN ArgCalls ELSE 0]
    /\ notifs_left = ArgNotifs

\* Two concurrent callers.
InitPair ==
    /\ InitApi
    /\ timeout = PairSlices
    /\ calls_left = [c \in Callers |-> PairCalls]
    /\ notifs_left = PairNotifs

\* Two concurrent callers on a fair event loop.
InitFair ==
    /\ InitApi
    /\ timeout = FairSlices
    /\ calls_left = [c \in Callers |-> FairCalls]
    /\ notifs_left = FairNotifs

IsConnected == client \in {"connected", "notifying"}

\* ------------------------------------------------------- the ack wait loop
\* A wait loop without the time budget.
ElapsedLtTimeout_Always(k) == TRUE

\* `elapsed < timeout` after k sleeps.
ElapsedLtTimeout(k) == k < timeout

\* `while not self._ack_received and elapsed < timeout` after k sleeps.
KeepWaiting(ack, k) == ~ack /\ ElapsedLtTimeout(k)

\* A _send_command without the test after the loop.
TimedOut_Never(ack) == FALSE

\* `if not self._ack_received: raise TimeoutError` after the loop.
TimedOut(ack) == ~ack

\* ------------------------------------------------------------ set_power
\* A set_power that never takes the early return.
SetPowerIsNoop_Never(st, x) == FALSE

\* `if self.state == state: return`.
SetPowerIsNoop(st, x) == st = Some(x)

\* A set_power whose update only assigns self.state.
OptimisticPower_KeepsFields(x) ==
    ApiData(Some(x), brightness, color, hsv, current_preset, mode)

\* The fields after set_power's update on success.
OptimisticPower(x) ==
    IF x THEN ApiData(Some(x), brightness, color, hsv, current_preset, mode)
    ELSE ApiData(Some(x), None, None, None, None, None)

\* The fields after set_color_hsv's update on success; h, s, v are clamped.
OptimisticColor(h, s, v) ==
    ApiData(state, Some(v), Some(HsvToRgb(h, s, v)), Some(<<h, s, v>>), None,
            Some(MODE_COLOR))

\* The fields after set_preset's update on success.
OptimisticPreset(preset, bright) ==
    ApiData(state, Some(bright), None, None, Some(preset), Some(MODE_PRESET))

\* ------------------------------------------------------- _send_command
\* A _send_command without `await self._ensure_connected()`.
SendEntry_NoEnsure(t, command) ==
    [t EXCEPT !.pc = "write", !.cmd = WithChecksum(command)]

\* _send_command up to its first await: _ensure_connected either finds a
\* connected client, and the command with its checksum goes to
\* write_gatt_char, or it enters _connect and awaits establish_connection.
SendEntry(t, command) ==
    IF IsConnected
    THEN [t EXCEPT !.pc = "write", !.cmd = WithChecksum(command)]
    ELSE [t EXCEPT !.pc = "connect", !.cmd = command]

\* A wait that, on expiry, writes the frame again instead of raising.
OnTimeout_Retry(t) == [t EXCEPT !.pc = "write", !.elapsed = 0]

\* What a coroutine does when its ack wait ends without an ack: it raises.
OnTimeout(t) == Return(t, "TimeoutError")

\* The operation's own command (after the optional power-on and settle delay):
\* set_color_hsv clamps and builds the color command, set_preset clamps, reads
\* the brightness and builds the preset command; then _send_command.
StartMain(t) ==
    IF t.op = "color"
    THEN LET a == ClampHsv(t.arg[1], t.arg[2], t.arg[3])
         IN  SendEntry([t EXCEPT !.arg = a, !.inner = FALSE],
                       ColorCommand(a[1], a[2], a[3]))
    ELSE LET preset == ClampPreset(t.arg[1])
             bright == BrightnessOr50(brightness)
         IN  SendEntry([t EXCEPT !.arg = <<preset, bright>>, !.inner = FALSE],
                       PresetCommand(preset, bright))

\* A pipeline that sends the operation's command without powering on.
PowerOnFirst_Skipped(t) == StartMain(t)

\* `if not self.state: await self.set_power(True); await asyncio.sleep(0.1)`
\* at the head of set_color_hsv and set_preset, then the operation's command.
PowerOnFirst(t) ==
    IF NotOn(state)
    THEN IF SetPowerIsNoop(state, TRUE)
         THEN [t EXCEPT !.pc = "settle"]
         ELSE SendEntry([t EXCEPT !.inner = TRUE], PowerCommand(TRUE))
    ELSE StartMain(t)

\* set_color_hsv / set_preset from their first line.
Pipeline(t) == PowerOnFirst([t EXCEPT !.off = NotOn(state)])

\* A coroutine entering set_color_hsv(h, s, v) / set_preset(preset).
ColorEntry(call, a) == Pipeline(Enter(call, "color", a))

PresetEntry(call, preset) == Pipeline(Enter(call, "preset", <<preset>>))

\* ------------------------------------------------------------ the calls
CanCall(c) == task[c].pc = "idle" /\ calls_left[c] > 0

Invoke(c, t) ==
    /\ CanCall(c)
    /\ calls_left' = [calls_left EXCEPT ![c] = @ - 1]
    /\ task' = [task EXCEPT ![c] = t]
    /\ UNCHANGED <<client, ack_received, devvars, data, pushes, notified,
                   timeout, notifs_left>>

CallSetPower(c, x) ==
    Invoke(c, IF SetPowerIsNoop(state, x)
              THEN Return(Enter("set_power", "power", <<x>>), "ok")
              ELSE SendEntry(Enter("set_power", "power", <<x>>),
                             PowerCommand(x)))

CallSetColorHsv(c, a) == Invoke(c, ColorEntry("set_color_hsv", a))

CallSetColorRgb(c, rgb) ==
    Invoke(c, ColorEntry("set_color_rgb",
                         RgbToHsvArgs(rgb[1], rgb[2], rgb[3], brightness)))

\* A set_brightness without the `if not self.state: return`.
BrightnessEntry_NoGuard(b) ==
    LET bright == Clamp(0, 100, b)
    IN  IF ~IsNone(hsv)
        THEN ColorEntry("set_brightness", <<Val(hsv)[1], Val(hsv)[2], bright>>)
        ELSE ColorEntry("set_brightness", <<0, 0, bright>>)

\* The task of set_brightness(b).
BrightnessEntry(b) ==
    IF NotOn(state)
    THEN Return(Enter("set_brightness", "color", <<b>>), "ok")
    ELSE LET bright == Clamp(0, 100, b)
         IN  IF ~IsNone(hsv)
             THEN ColorEntry("set_brightness",
                             <<Val(hsv)[1], Val(hsv)[2], bright>>)
             ELSE ColorEntry("set_brightness", <<0, 0, bright>>)

CallSetBrightness(c, b) == Invoke(c, BrightnessEntry(b))

CallSetPreset(c, p) == Invoke(c, PresetEntry("set_preset", p))

\* A set_effect that falls back to the first preset for a name it does not
\* know.
EffectEntry_Fallback(name) ==
    PresetEntry("set_effect",
                IF name \in DOMAIN EFFECT_PRESETS THEN EFFECT_PRESETS[name]
                ELSE 1)

\* The task of set_effect(name).
EffectEntry(name) ==
    IF name \in DOMAIN EFFECT_PRESETS
    THEN PresetEntry("set_effect", EFFECT_PRESETS[name])
    ELSE Return(Enter("set_effect", "preset", <<>>), "ok")

CallSetEffect(c, name) == Invoke(c, EffectEntry(name))

\* ------------------------------------------------------------ _connect
\* establish_connection returned a connected client: it becomes self._client
\* and start_notify is awaited.
ConnectOk(c) ==
    /\ task[c].pc = "connect"
    /\ client' = "connected"
    /\ task' = [task EXCEPT ![c].pc = "notify"]
    /\ UNCHANGED <<ack_received, devvars, data, pushes, notified, timeout,
                   calls_left, notifs_left>>

\* start_notify returned: _connect and _ensure_connected return, and
\* _send_command appends the checksum and calls self._client.write_gatt_char.
\* If another coroutine's failed _connect has set self._client to None in the
\* meantime, that call raises AttributeError.
NotifyOk(c) ==
    /\ task[c].pc = "notify"
    /\ client # "disconnected"
    /\ IF client = "None"
       THEN /\ task' = [task EXCEPT ![c] = Return(task[c], "AttributeError")]
            /\ client' = client
       ELSE /\ task' = [task EXCEPT ![c].pc = "write",
                                   ![c].cmd = WithChecksum(task[c].cmd)]
            /\ client' = "notifying"
    /\ UNCHANGED <<ack_received, devvars, data, pushes, notified, timeout,
                   calls_left, notifs_left>>

\* establish_connection or start_notify raised BleakError or TimeoutError:
\* self._client = None and ConnectionError is raised to the caller.
ConnectFail(c) ==
    /\ task[c].pc \in {"connect", "notify"}
    /\ client' = "None"
    /\ task' = [task EXCEPT ![c] = Return(task[c], "ConnectionError")]
    /\ UNCHANGED <<ack_received, devvars, data, pushes, notified, timeout,
                   calls_left, notifs_left>>

\* ------------------------------------------------- write_gatt_char, the wait
\* The link carries the frame to the device; the awaiting coroutine has not
\* resumed yet.
WriteFrame(c) ==
    /\ task[c].pc = "write"
    /\ IsConnected
    /\ task' = [task EXCEPT ![c].pc = "written",
                            ![c].log = Append(task[c].log, Written(task[c].cmd)),
                            ![c].ack_seen = FALSE]
    /\ UNCHANGED <<client, ack_received, devvars, data, pushes, notified, timeout,
                   calls_left, notifs_left>>

\* write_gatt_char raised (BleakError): it propagates to the caller.
WriteFail(c) ==
    /\ task[c].pc = "write"
    /\ task' = [task EXCEPT ![c] = Return(task[c], "BleakError")]
    /\ UNCHANGED <<client, ack_received, devvars, data, pushes, notified, timeout,
                   calls_left, notifs_left>>

\* A _send_command that does not reset the flag after the write.
WriteReturn_NoReset(c) ==
    /\ task[c].pc = "written"
    /\ ack_received' = ack_received
    /\ task' = [task EXCEPT ![c].pc = "wait", ![c].elapsed = 0]
    /\ UNCHANGED <<client, devvars, data, pushes, notified, timeout,
                   calls_left, notifs_left>>

\* The coroutine resumes after write_gatt_char: self._ack_received = False,
\* elapsed = 0.0, and the loop's first test sends it to sleep.
WriteReturn(c) ==
    /\ task[c].pc = "written"
    /\ ack_received' = FALSE
    /\ task' = [task EXCEPT ![c].pc = "wait", ![c].elapsed = 0]
    /\ UNCHANGED <<client, devvars, data, pushes, notified, timeout,
                   calls_left, notifs_left>>

\* The fields after the command of task t has been acknowledged.
AfterCommand(t) ==
    IF t.inner THEN OptimisticPower(TRUE)
    ELSE IF t.op = "power" THEN OptimisticPower(t.arg[1])
    ELSE IF t.op = "color" THEN OptimisticColor(t.arg[1], t.arg[2], t.arg[3])
    ELSE OptimisticPreset(t.arg[1], t.arg[2])

\* The coroutine after its command has been acknowledged: the inner
\* set_power(True) returns into the settle delay, anything else returns to
\* the caller.
Continue(t) ==
    IF t.inner
    THEN [t EXCEPT !.pc = "settle", !.inner = FALSE, !.cmd = <<>>,
                   !.elapsed = 0, !.ack_seen = FALSE,
                   !.log = Append(t.log, Acked)]
    ELSE Return([t EXCEPT !.log = Append(t.log, Acked)], "ok")

\* One asyncio.sleep(0.1) of the wait loop ends: elapsed += 0.1, the loop test,
\* and after the loop either TimeoutError or the operation's state update.
Poll(c) ==
    /\ task[c].pc = "wait"
    /\ LET t == task[c]
           e == t.elapsed + 1
           d == AfterCommand(t)
       IN  IF KeepWaiting(ack_received, e)
           THEN /\ task' = [task EXCEPT ![c].elapsed = e]
                /\ UNCHANGED devvars
           ELSE IF TimedOut(ack_received)
           THEN /\ task' = [task EXCEPT ![c] = OnTimeout(t)]
                /\ UNCHANGED devvars
           ELSE /\ task' = [task EXCEPT ![c] = Continue(t)]
                /\ state' = d.state
                /\ brightness' = d.brightness
                /\ color' = d.color
                /\ hsv' = d.hsv
                /\ current_preset' = d.current_preset
                /\ mode' = d.mode
    /\ UNCHANGED <<client, ack_received, data, pushes, notified, timeout,
                   calls_left, notifs_left>>

\* The settle delay asyncio.sleep(0.1) after the power-on ends.
Settle(c) ==
    /\ task[c].pc = "settle"
    /\ task' = [task EXCEPT ![c] =
                   StartMain([task[c] EXCEPT !.log = Append(@, Settled)])]
    /\ UNCHANGED <<client, ack_received, devvars, data, pushes, notified, timeout,
                   calls_left, notifs_left>>

\* --------------------------------------------------- _handle_notification
\* (data[i] << 8) | data[i + 1].
Word(d, i) == At(d, i) * 256 + At(d, i + 1)

\* The handler's outcome: the fields it leaves, the ack flag it leaves,
\* whether it invoked the update callback, whether it raised.
Outcome(dev, ack, push, raised) ==
    [dev |-> dev, ack |-> ack, push |-> push, raised |-> raised]

\* A handler that knows an acknowledgement by its content.
AckLength_KnownAck(d) == d = ACK2

\* `len(data) == 4`: what the handler takes for an acknowledgement.
AckLength(d) == Len(d) = 4

\* `if len(data) == 4`: the flag is set and the callback invoked.
OnAck(cur) == Outcome(cur, TRUE, TRUE, FALSE)

\* `if len(data) < 12`: logged, nothing else.
OnShort(cur) == Outcome(cur, ack_received, FALSE, FALSE)

\* `self.state = power_state; if not power_state: callback; return`.
OnPowerOff(cur) ==
    Outcome([cur EXCEPT !.state = Some(FALSE)], ack_received, TRUE, FALSE)

\* A color branch that stores hsv and color but not the brightness.
OnColor_NoBrightness(cur, d) ==
    IF Len(d) < 14
    THEN Outcome([cur EXCEPT !.state = Some(TRUE), !.mode = Some(At(d, 7))],
                 ack_received, FALSE, TRUE)
    ELSE LET h == At(d, 8) * 256 + At(d, 9)
             s == (At(d, 10) * 256 + At(d, 11)) \div 10
             v == (At(d, 12) * 256 + At(d, 13)) \div 10
         IN  Outcome(ApiData(Some(TRUE), cur.brightness,
                             Some(HsvToRgb(h, s, v)), Some(<<h, s, v>>),
                             cur.current_preset, Some(At(d, 7))),
                     ack_received, TRUE, FALSE)

\* mode == 1: h, s, v are read from bytes 8..13; data[12] or data[13] raises
\* IndexError on a frame shorter than 14 bytes, after self.state and self.mode
\* have been assigned and before the callback.
OnColor(cur, d) ==
    IF Len(d) < 14
    THEN Outcome([cur EXCEPT !.state = Some(TRUE), !.mode = Some(At(d, 7))],
                 ack_received, FALSE, TRUE)
    ELSE LET h == Word(d, 8)
             s == Word(d, 10) \div 10
             v == Word(d, 12) \div 10
         IN  Outcome(ApiData(Some(TRUE), Some(v), Some(HsvToRgb(h, s, v)),
                             Some(<<h, s, v>>), cur.current_preset,
                             Some(At(d, 7))),
                     ack_received, TRUE, FALSE)

\* mode == 2: preset and brightness are read from bytes 8..10.
OnPreset(cur, d) ==
    Outcome(ApiData(Some(TRUE), Some(Word(d, 9) \div 10), cur.color, cur.hsv,
                    Some(At(d, 8)), Some(At(d, 7))),
            ack_received, TRUE, FALSE)

\* Any other mode byte: self.state and self.mode are assigned, the callback
\* is invoked.
OnOtherMode(cur, d) ==
    Outcome([cur EXCEPT !.state = Some(TRUE), !.mode = Some(At(d, 7))],
            ack_received, TRUE, FALSE)

HandleNotification(d) ==
    IF AckLength(d) THEN OnAck(Snapshot)
    ELSE IF Len(d) < 12 THEN OnShort(Snapshot)
    ELSE IF ~(At(d, 6) = 1) THEN OnPowerOff(Snapshot)
    ELSE IF At(d, 7) = 1 THEN OnColor(Snapshot, d)
    ELSE IF At(d, 7) = 2 THEN OnPreset(Snapshot, d)
    ELSE OnOtherMode(Snapshot, d)

\* The subscribed client delivers the notification d: the handler runs, and
\* its callback (coordinator._async_push_data) stores the snapshot of the
\* fields as they are at that point.  ack_seen records, for each coroutine
\* whose frame is on the link, that an ack has been delivered since.
Notify(d) ==
    /\ client = "notifying"
    /\ notifs_left > 0
    /\ notifs_left' = notifs_left - 1
    /\ LET r == HandleNotification(d)
       IN  /\ state' = r.dev.state
           /\ brightness' = r.dev.brightness
           /\ color' = r.dev.color
           /\ hsv' = r.dev.hsv
           /\ current_preset' = r.dev.current_preset
           /\ mode' = r.dev.mode
           /\ ack_received' = r.ack
           /\ pushes' = IF r.push THEN pushes + 1 ELSE pushes
           /\ data' = IF r.push THEN r.dev ELSE data
           /\ notified' = Some([data |-> d, raised |-> r.raised])
    /\ task' = [c \in Callers |->
                   IF Len(d) = 4 /\ task[c].pc \in {"written", "wait"}
                   THEN [task[c] EXCEPT !.ack_seen = TRUE]
                   ELSE task[c]]
    /\ UNCHANGED <<client, timeout, calls_left>>

\* ------------------------------------------------------- the environment
\* The BLE link drops: the client object stays, is_connected turns false.
LinkDrop ==
    /\ IsConnected
    /\ client' = "disconnected"
    /\ UNCHANGED <<ack_received, devvars, data, pushes, notified, task,
                   timeout, calls_left, notifs_left>>

Next ==
    \/ \E c \in Callers, x \in BOOLEAN : CallSetPower(c, x)
    \/ \E c \in Callers, a \in HsvInputs : CallSetColorHsv(c, a)
    \/ \E c \in Callers, a \in RgbInputs : CallSetColorRgb(c, a)
    \/ \E c \in Callers, b \in BrightnessInputs : CallSetBrightness(c, b)
    \/ \E c \in Callers, p \in PresetInputs : CallSetPreset(c, p)
    \/ \E c \in Callers, n \in EffectInputs : CallSetEffect(c, n)
    \/ \E c \in Callers : ConnectOk(c)
    \/ \E c \in Callers : NotifyOk(c)
    \/ \E c \in Callers : ConnectFail(c)
    \/ \E c \in Callers : WriteFrame(c)
    \/ \E c \in Callers : WriteFail(c)
    \/ \E c \in Callers : WriteReturn(c)
    \/ \E c \in Callers : Poll(c)
    \/ \E c \in Callers : Settle(c)
    \/ \E d \in MainFrames : Notify(d)
    \/ LinkDrop

Spec == Init /\ [][Next]_vars

\* One caller, every notification shape: the same actions, fewer operations.
NextNotify ==
    \/ \E c \in Callers, x \in BOOLEAN : CallSetPower(c, x)
    \/ \E c \in Callers, a \in PairHsvInputs : CallSetColorHsv(c, a)
    \/ \E c \in Callers : ConnectOk(c)
    \/ \E c \in Callers : NotifyOk(c)
    \/ \E c \in Callers : ConnectFail(c)
    \/ \E c \in Callers : WriteFrame(c)
    \/ \E c \in Callers : WriteFail(c)
    \/ \E c \in Callers : WriteReturn(c)
    \/ \E c \in Callers : Poll(c)
    \/ \E c \in Callers : Settle(c)
    \/ \E d \in NotifFrames : Notify(d)

SpecNotify == InitNotify /\ [][NextNotify]_vars

\* One caller, arguments of every kind: the same actions, the device only
\* acknowledges.
ArgFrames == {ACK2}

NextArgs ==
    \/ \E c \in Callers, x \in BOOLEAN : CallSetPower(c, x)
    \/ \E c \in Callers, a \in ArgHsvInputs : CallSetColorHsv(c, a)
    \/ \E c \in Callers, a \in ArgRgbInputs : CallSetColorRgb(c, a)
    \/ \E c \in Callers, b \in ArgBrightnessInputs : CallSetBrightness(c, b)
    \/ \E c \in Callers, p \in ArgPresetInputs : CallSetPreset(c, p)
    \/ \E c \in Callers, n \in ArgEffectInputs : CallSetEffect(c, n)
    \/ \E c \in Callers : ConnectOk(c)
    \/ \E c \in Callers : NotifyOk(c)
    \/ \E c \in Callers : ConnectFail(c)
    \/ \E c \in Callers : WriteFrame(c)
    \/ \E c \in Callers : WriteFail(c)
    \/ \E c \in Callers : WriteReturn(c)
    \/ \E c \in Callers : Poll(c)
    \/ \E c \in Callers : Settle(c)
    \/ \E d \in ArgFrames : Notify(d)

SpecArgs == InitArgs /\ [][NextArgs]_vars

\* Two concurrent callers: the same actions over fewer inputs.
PairFrames == {ACK2, StatusFrame(12, 0, 0, <<>>)}

NextPair ==
    \/ \E c \in Callers, x \in BOOLEAN : CallSetPower(c, x)
    \/ \E c \in Callers, a \in PairHsvInputs : CallSetColorHsv(c, a)
    \/ \E c \in Callers : ConnectOk(c)
    \/ \E c \in Callers : NotifyOk(c)
    \/ \E c \in Callers : ConnectFail(c)
    \/ \E c \in Callers : WriteFrame(c)
    \/ \E c \in Callers : WriteFail(c)
    \/ \E c \in Callers : WriteReturn(c)
    \/ \E c \in Callers : Poll(c)
    \/ \E c \in Callers : Settle(c)
    \/ \E d \in PairFrames : Notify(d)

SpecPair == InitPair /\ [][NextPair]_vars

\* The steps of caller c's coroutine once it is inside the API: each is the
\* end of an await (establish_connection, start_notify, write_gatt_char,
\* asyncio.sleep), which returns or raises, after which the event loop resumes
\* the coroutine.
Progress(c) ==
    \/ ConnectOk(c)
    \/ NotifyOk(c)
    \/ ConnectFail(c)
    \/ WriteFrame(c)
    \/ WriteFail(c)
    \/ WriteReturn(c)
    \/ Poll(c)
    \/ Settle(c)

\* Two concurrent callers on a fair event loop: a coroutine whose await can
\* end is resumed.
\* The callers set a color: the operation with every kind of step (connect,
\* power-on, settle delay, color command).
NextFair ==
    \/ \E c \in Callers, a \in PairHsvInputs : CallSetColorHsv(c, a)
    \/ \E c \in Callers : Progress(c)
    \/ \E d \in PairFrames : Notify(d)

SpecFair ==
    /\ InitFair
    /\ [][NextFair]_vars
    /\ \A c \in Callers : WF_vars(Progress(c))

\* ====================================================================
\* The claims
\* ====================================================================

\* The coroutines whose frame is on the link and whose ack wait has not ended.
AwaitingAck == {c \in Callers : task[c].pc \in {"written", "wait"}}

\* C1: at every moment at most one command is inside the "write frame + await
\* ack" section: no caller's frame goes to the link while another caller's
\* frame is there and its operation has neither returned nor failed.
\* (Stated as the claim has it; the code holds no lock, see C1 in the results.)
C1_OneCommandInFlight == Cardinality(AwaitingAck) <= 1

\* C2: for a single caller, an operation never fails with a timeout when an
\* Ack notification was delivered after its frame went to the link and before
\* the wait expired: no such ack is lost.
C2_NoAckLost ==
    \A c \in Callers : task[c].result = "TimeoutError" => ~task[c].ack_seen

\* C3: after an operation has failed with a timeout, the ack tracker holds no
\* pending expectation (the flag is back to "received", as before the first
\* command).
C3_TrackerClearAfterTimeout ==
    \A c \in Callers :
        (task[c].pc = "idle" /\ task[c].result = "TimeoutError") => ack_received

\* "Populated" for the DeviceState invariant.
ColorPopulated == ~IsNone(hsv) /\ ~IsNone(color)
ColorUnset == IsNone(hsv) /\ IsNone(color)
PresetPopulated == ~IsNone(current_preset)

\* C4: the DeviceState invariant: when mode is set, exactly one of
\* {hsv together with rgb, preset} is populated; when power is false or
\* unknown, hsv, rgb and preset are all unset.
C4_DeviceStateInvariant ==
    /\ ~IsNone(mode) =>
          \/ ColorPopulated /\ ~PresetPopulated
          \/ ColorUnset /\ PresetPopulated
    /\ NotOn(state) => (ColorUnset /\ ~PresetPopulated)

\* A step that delivers a notification.
NotifyStep == notifs_left' < notifs_left

\* The frame shapes of the notification decode table.
IsAck(d) == Len(d) = 4
IsStatusOff(d) == Len(d) >= 12 /\ At(d, 6) = 0
IsStatusColor(d) == Len(d) >= 14 /\ At(d, 6) = 1 /\ At(d, 7) = 1
IsStatusPreset(d) == Len(d) >= 11 /\ At(d, 7) = 2
IsUnrecognized(d) ==
    ~IsAck(d) /\ ~IsStatusOff(d) /\ ~IsStatusColor(d) /\ ~IsStatusPreset(d)

\* C5: when a StatusOff notification (length >= 12, byte 6 == 0) is
\* dispatched, the resulting state has power = false and mode, hsv, rgb,
\* preset and brightness all unset, whatever the state was before.
C5_StatusOffClears ==
    [][(NotifyStep /\ IsStatusOff(notified'[1].data)) =>
          /\ state' = Some(FALSE)
          /\ mode' = None
          /\ hsv' = None
          /\ color' = None
          /\ current_preset' = None
          /\ brightness' = None]_vars

\* C6: once a command-sending operation has returned successfully, the
\* snapshot last pushed to the coordinator equals the API's current state
\* (the sink was invoked at or after the optimistic update).
C6_SinkSeesUpdate ==
    (\A c \in Callers : task[c].pc = "idle")
        => \A c \in Callers :
              (task[c].result = "ok" /\ task[c].log # <<>>) => data = Snapshot

\* C7: set_power(x) called while the known power state equals x writes no
\* frame, leaves the ack flag and every DeviceState field as they are and
\* returns; and a set_power(x) that succeeds leaves the power state equal to
\* x, so that the same call made again right away is that no-op (two
\* set_power(true) in a row write one frame).
C7_IdempotentPower ==
    [][/\ \A c \in Callers, x \in BOOLEAN :
             (CallSetPower(c, x) /\ state = Some(x)) =>
                 /\ task'[c].pc = "idle"
                 /\ task'[c].result = "ok"
                 /\ Frames(task'[c].log) = <<>>
                 /\ ack_received' = ack_received
                 /\ devvars' = devvars
       /\ \A c \in Callers :
             (/\ task[c].pc = "wait"
              /\ task[c].call = "set_power"
              /\ task'[c].pc = "idle"
              /\ task'[c].result = "ok") =>
                 SetPowerIsNoop(state', task[c].arg[1])]_vars

\* C7 witness: the caller's second operation was a set_power that returned
\* without writing, with the power state on and a single notification, an
\* ack, delivered so far: the first operation's power-on.
C7_Witness ==
    /\ calls_left["A"] = MaxCalls - 2
    /\ task["A"].pc = "idle"
    /\ task["A"].call = "set_power"
    /\ task["A"].result = "ok"
    /\ task["A"].log = <<>>
    /\ state = Some(TRUE)
    /\ notifs_left = MaxNotifs - 1
    /\ notified # None
    /\ IsAck(notified[1].data)

\* The power-on frame, and the color/preset frames.
PowerOnFrame == WithChecksum(PowerCommand(TRUE))
IsMainFrame(f) == f[2] = CMD_COLOR_PRESET
IsPowerFrame(f) == f[2] = CMD_POWER

\* C8: when set_color_hsv or set_preset is called while the device is not
\* known to be on, its color/preset frame is written only after the power-on
\* frame was written and acknowledged and the settle delay has elapsed; if
\* the power-on fails, no color/preset frame is written.
C8_PowerOnBeforeColor ==
    \A c \in Callers :
        LET log == task[c].log
        IN  task[c].off =>
                \A i \in 1..Len(log) :
                    (log[i].ev = "write" /\ IsMainFrame(log[i].frame)) =>
                        /\ i = 4
                        /\ log[1] = Written(PowerOnFrame)
                        /\ log[2] = Acked
                        /\ log[3] = Settled

\* C8 witness: a color/preset operation entered with the device not known to
\* be on has written its color/preset frame.
C8_Witness ==
    \E c \in Callers :
        /\ task[c].off
        /\ Len(task[c].log) >= 4
        /\ task[c].log[4].ev = "write"
        /\ IsMainFrame(task[c].log[4].frame)

\* The number of frames of a sequence that satisfy a test.
CountFrames(fs, Test(_)) == Cardinality({i \in 1..Len(fs) : Test(fs[i])})

\* C9: one invocation writes at most one power frame and at most one
\* color/preset frame; a frame is not written again after a timeout or a
\* write failure.
C9_AtMostOnce ==
    \A c \in Callers :
        LET fs == Frames(task[c].log)
        IN  /\ CountFrames(fs, IsPowerFrame) <= 1
            /\ CountFrames(fs, IsMainFrame) <= 1

\* C9 witness: an operation has written its frame once and failed with a
\* timeout.
C9_Witness ==
    \E c \in Callers :
        /\ task[c].pc = "idle"
        /\ task[c].result = "TimeoutError"
        /\ Len(Frames(task[c].log)) = 1

\* C10: a notification that is neither an Ack, a StatusOff, a StatusColor nor
\* a StatusPreset leaves DeviceState and the ack flag unchanged and does not
\* invoke the sink.
C10_UnrecognizedDropped ==
    [][(NotifyStep /\ IsUnrecognized(notified'[1].data)) =>
          /\ devvars' = devvars
          /\ ack_received' = ack_received
          /\ pushes' = pushes]_vars

\* C11: handling a notification never fails: whatever the frame, the handler
\* returns without raising (and so never stops half-way through its update of
\* DeviceState).
C11_HandlerNeverRaises == notified # None => ~notified[1].raised

\* C12: any 4-byte notification, whatever its content, is an Ack: after it the
\* ack flag is set (a pending wait is resolved; a flag already set stays set),
\* no DeviceState field has changed, and the sink has been invoked once with
\* the current fields.
C12_FourBytesIsAck ==
    [][(NotifyStep /\ IsAck(notified'[1].data)) =>
          /\ ack_received'
          /\ devvars' = devvars
          /\ pushes' = pushes + 1
          /\ data' = Snapshot]_vars

\* C12 witness: the only notification delivered so far is a 4-byte frame that
\* is not one of the device's acks, and the operation waiting for its ack has
\* returned successfully.
C12_Witness ==
    /\ notifs_left = NotifyNotifs - 1
    /\ notified # None
    /\ IsAck(notified[1].data)
    /\ notified[1].data # ACK2
    /\ \E c \in Callers :
          /\ task[c].pc = "idle"
          /\ task[c].result = "ok"
          /\ Len(Frames(task[c].log)) = 1

\* A step in which the command of caller c, written and acknowledged, makes
\* its operation apply its update.
Succeeds(c) ==
    /\ task[c].pc = "wait"
    /\ task'[c].log = Append(task[c].log, Acked)

\* The frame of set_power(False).
PowerOffFrame == WithChecksum(PowerCommand(FALSE))

\* C13: when set_power(false) succeeds, the resulting DeviceState has power =
\* false and brightness, rgb, hsv, preset and mode all unset; when
\* set_power(true) succeeds, power becomes true and every other field keeps
\* its value.
C13_PowerUpdate ==
    [][\A c \in Callers :
          (Succeeds(c) /\ (task[c].inner \/ task[c].op = "power")) =>
              IF task[c].inner \/ task[c].arg[1]
              THEN /\ state' = Some(TRUE)
                   /\ <<brightness, color, hsv, current_preset, mode>>'
                         = <<brightness, color, hsv, current_preset, mode>>
              ELSE /\ state' = Some(FALSE)
                   /\ brightness' = None
                   /\ color' = None
                   /\ hsv' = None
                   /\ current_preset' = None
                   /\ mode' = None]_vars

\* C13 witness: a set_power(false) has succeeded and left every field unset,
\* while the snapshot pushed before its update still shows the color the
\* device had.
C13_Witness ==
    \E c \in Callers :
        /\ task[c].pc = "idle"
        /\ task[c].call = "set_power"
        /\ task[c].result = "ok"
        /\ Frames(task[c].log) = <<PowerOffFrame>>
        /\ ~IsNone(data.hsv)
        /\ state = Some(FALSE)
        /\ <<brightness, color, hsv, current_preset, mode>>
              = <<None, None, None, None, None>>

\* A color frame on the link: [0xAA, 0x03, len, 0x01, h, h, s, s, v, v, sum].
IsColorFrame(f) == Len(f) >= 4 /\ f[2] = CMD_COLOR_PRESET /\ f[4] = MODE_COLOR

\* The 16-bit big-endian value at bytes i, i+1 (0-based) of a frame.
WordAt(f, i) == f[i + 1] * 256 + f[i + 2]

\* C14: whatever integers set_color_hsv is given, the color frame it writes
\* encodes h in 0..359 and s*10, v*10 in 0..1000, and after success the stored
\* hsv has h in 0..359 and s, v in 0..100, with brightness equal to the stored
\* v.
C14_HsvClamp ==
    [][\A c \in Callers :
          /\ \A i \in 1..Len(task'[c].log) :
                LET e == task'[c].log[i]
                IN  (e.ev = "write" /\ IsColorFrame(e.frame)) =>
                        /\ Len(e.frame) = 11
                        /\ WordAt(e.frame, 4) \in 0..359
                        /\ WordAt(e.frame, 6) \in 0..1000
                        /\ WordAt(e.frame, 8) \in 0..1000
          /\ (Succeeds(c) /\ task[c].op = "color" /\ ~task[c].inner) =>
                /\ ~IsNone(hsv')
                /\ Val(hsv')[1] \in 0..359
                /\ Val(hsv')[2] \in 0..100
                /\ Val(hsv')[3] \in 0..100
                /\ brightness' = Some(Val(hsv')[3])]_vars

\* C14 witness: set_color_hsv(400, -3, 101) has succeeded: its frame carried
\* h = 359, s = 0, v = 100 and these are the stored values.
C14_Witness ==
    \E c \in Callers :
        /\ task[c].pc = "idle"
        /\ task[c].call = "set_color_hsv"
        /\ task[c].result = "ok"
        /\ \E i \in 1..Len(task[c].log) :
              /\ task[c].log[i].ev = "write"
              /\ IsColorFrame(task[c].log[i].frame)
              /\ WordAt(task[c].log[i].frame, 4) = 359
              /\ WordAt(task[c].log[i].frame, 6) = 0
              /\ WordAt(task[c].log[i].frame, 8) = 1000
        /\ hsv = Some(<<359, 0, 100>>)
        /\ brightness = Some(100)

\* A step in which caller c, inside set_preset, builds its preset command:
\* on entry when the device is on, else after the settle delay.
BuildsPreset(c) ==
    /\ task[c].pc \in {"idle", "settle"}
    /\ task'[c].pc \in {"connect", "write"}
    /\ task'[c].op = "preset"
    /\ ~task'[c].inner

\* The input p limited to 1..58.
Limit58(p) == IF p < 1 THEN 1 ELSE IF p > 58 THEN 58 ELSE p

\* C15: the preset frame of set_preset carries the last-known brightness
\* whenever a brightness is known (0 included) and 50 only when none is
\* known, and the preset id limited to 1..58; after success these are the
\* stored preset and brightness.
C15_PresetBrightness ==
    [][\A c \in Callers :
          /\ BuildsPreset(c) =>
                /\ task'[c].cmd[4] = MODE_PRESET
                /\ task'[c].cmd[5] \in 1..58
                /\ task[c].pc = "settle" =>
                       task'[c].cmd[5] = Limit58(task[c].arg[1])
                /\ WordAt(task'[c].cmd, 5)
                      = 10 * (IF IsNone(brightness) THEN 50 ELSE Val(brightness))
          /\ (Succeeds(c) /\ task[c].op = "preset" /\ ~task[c].inner) =>
                /\ current_preset' = Some(task[c].cmd[5])
                /\ 10 * Val(brightness') = WordAt(task[c].cmd, 5)]_vars

\* A preset frame on the link: [0xAA, 0x03, len, 0x02, preset, b, b, sum].
IsPresetFrame(f) ==
    Len(f) >= 5 /\ f[2] = CMD_COLOR_PRESET /\ f[4] = MODE_PRESET

\* The color/preset frames among the frames an invocation has written.
MainFramesOf(log) ==
    LET fs == Frames(log)
    IN  {i \in 1..Len(fs) : IsMainFrame(fs[i])}

\* C16: set_effect(name) with a name of the catalog issues exactly one preset
\* command, carrying catalog[name] (Fireworks -> 17), and on success leaves
\* mode = Preset and preset = catalog[name]; with a name that is not in the
\* catalog it writes no frame, changes no state and raises nothing.
C16_SetEffect ==
    [][\A c \in Callers :
          /\ \A n \in ArgEffectInputs :
                (task'[c].call = "set_effect" /\ CallSetEffect(c, n)) =>
                    IF n \in EffectNames
                    THEN /\ task'[c].pc # "idle"
                         /\ task'[c].op = "preset"
                         /\ task'[c].arg[1] = EFFECT_PRESETS[n]
                         /\ n = "Fireworks" => task'[c].arg[1] = 17
                         /\ MainFramesOf(task'[c].log) = {}
                    ELSE /\ task'[c].pc = "idle"
                         /\ task'[c].result = "ok"
                         /\ task'[c].log = <<>>
                         /\ devvars' = devvars
                         /\ ack_received' = ack_received
          /\ (task[c].call = "set_effect" /\ task[c].pc # "idle") =>
                /\ task'[c].pc # "idle" => task'[c].arg[1] = task[c].arg[1]
                /\ Cardinality(MainFramesOf(task'[c].log)) <= 1
                /\ \A i \in MainFramesOf(task'[c].log) :
                      LET f == Frames(task'[c].log)[i]
                      IN  IsPresetFrame(f) /\ f[5] = task[c].arg[1]
                /\ (Succeeds(c) /\ ~task[c].inner) =>
                      /\ Cardinality(MainFramesOf(task'[c].log)) = 1
                      /\ mode' = Some(MODE_PRESET)
                      /\ current_preset' = Some(task[c].arg[1])]_vars

\* C16 witness: a set_effect has succeeded with one preset frame written,
\* carrying 54 (Snow Day), and the device is left in preset mode on 54.
C16_Witness ==
    \E c \in Callers :
        /\ task[c].pc = "idle"
        /\ task[c].call = "set_effect"
        /\ task[c].result = "ok"
        /\ \E i \in MainFramesOf(task[c].log) :
              /\ IsPresetFrame(Frames(task[c].log)[i])
              /\ Frames(task[c].log)[i][5] = EFFECT_PRESETS["Snow Day"]
        /\ mode = Some(MODE_PRESET)
        /\ current_preset = Some(54)

\* C17: set_brightness called while the device is off, or its power state
\* unknown, does nothing: it returns at once, no frame is written (no
\* power-on frame either), the ack flag and DeviceState are as they were.
C17_BrightnessNoopWhenOff ==
    [][\A c \in Callers, b \in BrightnessInputs \cup ArgBrightnessInputs :
          (task'[c].call = "set_brightness" /\ CallSetBrightness(c, b)
               /\ (IsNone(state) \/ state = Some(FALSE))) =>
              /\ task'[c].pc = "idle"
              /\ task'[c].result = "ok"
              /\ task'[c].log = <<>>
              /\ task'[c].cmd = <<>>
              /\ ack_received' = ack_received
              /\ devvars' = devvars
              /\ client' = client]_vars

\* C17 witness: set_brightness has returned without writing while the device
\* is known to be off, after an earlier operation had connected.
C17_Witness ==
    \E c \in Callers :
        /\ task[c].pc = "idle"
        /\ task[c].call = "set_brightness"
        /\ task[c].result = "ok"
        /\ task[c].log = <<>>
        /\ state = Some(FALSE)
        /\ client = "notifying"

\* C18: set_color_rgb(0, 0, 0) passes on, sends and stores a V equal to the
\* brightness known when it is called, and 50 when none is known.
C18_BlackKeepsBrightness ==
    [][\A c \in Callers :
          /\ (task'[c].call = "set_color_rgb"
                 /\ CallSetColorRgb(c, <<0, 0, 0>>)) =>
                task'[c].arg[3]
                    = IF IsNone(brightness) THEN 50 ELSE Val(brightness)
          /\ (task[c].call = "set_color_rgb" /\ task[c].pc # "idle") =>
                /\ task'[c].pc # "idle" => task'[c].arg[3] = task[c].arg[3]
                /\ \A i \in 1..Len(task'[c].log) :
                      LET e == task'[c].log[i]
                      IN  (e.ev = "write" /\ IsColorFrame(e.frame)) =>
                              WordAt(e.frame, 8) = 10 * task[c].arg[3]
                /\ (Succeeds(c) /\ ~task[c].inner) =>
                      brightness' = Some(task[c].arg[3])]_vars

\* The sum of the first n bytes of a frame.
RECURSIVE ByteSum(_, _)
ByteSum(f, n) == IF n = 0 THEN 0 ELSE f[n] + ByteSum(f, n - 1)

\* [0xAA, cmd, len, payload..., checksum]: every element is a byte, the len
\* byte counts the payload bytes between it and the checksum, and the
\* checksum is the sum of the bytes before it modulo 256.
WellFormedFrame(f) ==
    /\ Len(f) >= 4
    /\ \A i \in 1..Len(f) : f[i] \in 0..255
    /\ f[1] = 170
    /\ f[2] \in {CMD_POWER, CMD_COLOR_PRESET}
    /\ f[3] = Len(f) - 4
    /\ f[Len(f)] = ByteSum(f, Len(f) - 1) % 256

\* C19: every frame written to the link (power, color, preset) has the shape
\* [0xAA, cmd, len, payload..., checksum], with len the number of payload
\* bytes and checksum the sum of all preceding bytes modulo 256.
C19_FrameShape ==
    \A c \in Callers :
        \A i \in 1..Len(task[c].log) :
            task[c].log[i].ev = "write" => WellFormedFrame(task[c].log[i].frame)

\* C19 witness: a power frame and a color frame whose bytes sum to more than
\* 255 have been written.
C19_Witness ==
    \E c \in Callers :
        \E i, j \in 1..Len(task[c].log) :
            /\ task[c].log[i].ev = "write"
            /\ IsPowerFrame(task[c].log[i].frame)
            /\ task[c].log[j].ev = "write"
            /\ IsColorFrame(task[c].log[j].frame)
            /\ ByteSum(task[c].log[j].frame, 10) > 255

\* C20: a notification of length >= 11 with byte 6 == 1 and byte 7 == 2 is
\* applied as StatusPreset: afterwards power = true, mode = Preset, preset =
\* byte 8, brightness = (16-bit big-endian value at bytes 9..10) div 10, and
\* hsv and rgb are unset.
C20_StatusPresetApplied ==
    [][(/\ NotifyStep
        /\ IsStatusPreset(notified'[1].data)
        /\ At(notified'[1].data, 6) = 1) =>
          /\ state' = Some(TRUE)
          /\ mode' = Some(MODE_PRESET)
          /\ current_preset' = Some(At(notified'[1].data, 8))
          /\ brightness' = Some(WordAt(notified'[1].data, 9) \div 10)
          /\ hsv' = None
          /\ color' = None]_vars

\* The color status of the decode table: H = 45, S = 250, V = 500.
ColorStatus45 == <<0, 0, 0, 0, 0, 0, 1, 1, 0, 45, 0, 250, 1, 244>>

\* C21: a notification of length >= 14 with byte 6 == 1 and byte 7 == 1 is
\* applied as StatusColor over whatever the state was, optimistic updates
\* included: afterwards power = true, mode = Color, hsv = (bytes 8..9,
\* bytes 10..11 div 10, bytes 12..13 div 10) and brightness is the decoded v;
\* the frame with 45, 250, 500 gives (45, 25, 50).
C21_StatusColorApplied ==
    [][(NotifyStep /\ IsStatusColor(notified'[1].data)) =>
          LET d == notified'[1].data
              h == WordAt(d, 8)
              s == WordAt(d, 10) \div 10
              v == WordAt(d, 12) \div 10
          IN  /\ state' = Some(TRUE)
              /\ mode' = Some(MODE_COLOR)
              /\ hsv' = Some(<<h, s, v>>)
              /\ brightness' = Some(v)
              /\ d = ColorStatus45 => hsv' = Some(<<45, 25, 50>>)]_vars

\* C21 witness: a set_power(false) had succeeded and left the state off with
\* every field unset; the color status that followed has overwritten it.
C21_Witness ==
    /\ notified # None
    /\ notified[1].data = ColorStatus45
    /\ \E c \in Callers :
          /\ task[c].pc = "idle"
          /\ task[c].result = "ok"
          /\ Frames(task[c].log) = <<PowerOffFrame>>
    /\ state = Some(TRUE)
    /\ mode = Some(MODE_COLOR)
    /\ hsv = Some(<<45, 25, 50>>)
    /\ brightness = Some(50)

\* A step in which the ack wait of caller c ends with no ack received.
WaitExpires(c) ==
    /\ task[c].pc = "wait"
    /\ task'[c].pc # "wait"
    /\ ~ack_received

\* C22: a command that times out applies no optimistic update: the step in
\* which the ack wait expires raises TimeoutError and changes no DeviceState
\* field, and between the write of the frame and that step the fields change
\* only by notifications.
C22_TimeoutNoUpdate ==
    [][\A c \in Callers :
          /\ WaitExpires(c) =>
                /\ task'[c].pc = "idle"
                /\ task'[c].result = "TimeoutError"
                /\ devvars' = devvars
          /\ (task[c].pc \in {"written", "wait"} /\ ~Succeeds(c)
                 /\ ~NotifyStep) => devvars' = devvars]_vars

\* C22 witness: a set_color_hsv on a device not known to be on has powered
\* it on, then timed out on its color frame: the power state is on and no
\* color has been stored.
C22_Witness ==
    \E c \in Callers :
        /\ task[c].pc = "idle"
        /\ task[c].call = "set_color_hsv"
        /\ task[c].result = "TimeoutError"
        /\ Len(Frames(task[c].log)) = 2
        /\ IsColorFrame(Frames(task[c].log)[2])
        /\ state = Some(TRUE)
        /\ hsv = None
        /\ mode = None

\* C23: a frame goes to the link only while the link is connected; an
\* operation that finds the link not connected connects and subscribes before
\* it writes; and when connecting or subscribing fails, the operation raises
\* ConnectionError, no client is held afterwards, no frame is written, and the
\* ack flag and DeviceState are as they were.
C23_ConnectOnDemand ==
    [][\A c \in Callers :
          /\ Len(task'[c].log) > Len(task[c].log)
                 /\ task'[c].log[Len(task'[c].log)].ev = "write"
                => client \in {"connected", "notifying"}
          /\ (task[c].pc # "write" /\ task'[c].pc = "write")
                => client' = "notifying"
          /\ (task[c].pc \in {"connect", "notify"} /\ task'[c].pc = "idle") =>
                /\ task'[c].result = "ConnectionError"
                /\ client' = "None"
                /\ task'[c].log = task[c].log
                /\ ack_received' = ack_received
                /\ devvars' = devvars]_vars

\* C23 witness: the device is known to be on and the link has dropped; the
\* caller's second operation failed to connect: it raised ConnectionError with
\* nothing written, no client is held, and the device is still known as on.
C23_Witness ==
    \E c \in Callers :
        /\ task[c].pc = "idle"
        /\ task[c].result = "ConnectionError"
        /\ task[c].log = <<>>
        /\ calls_left[c] = MaxCalls - 2
        /\ client = "None"
        /\ state = Some(TRUE)

\* C24: no spurious success: under any interleaving of callers and
\* notifications, a command succeeds (its operation applies the update and
\* goes on or returns) only if a 4-byte notification was delivered after the
\* command's own frame went to the link; the flag's initial value and acks
\* delivered before the write do not count.
C24_NoSpuriousSuccess ==
    [][\A c \in Callers : Succeeds(c) => task[c].ack_seen]_vars

\* C24 witness: both callers have had a command succeed, with acks delivered
\* to the API.
C24_Witness ==
    /\ \A c \in Callers :
          /\ task[c].pc = "idle"
          /\ task[c].result = "ok"
          /\ Len(Frames(task[c].log)) >= 1
          /\ task[c].ack_seen
    /\ notifs_left < PairNotifs

\* C25: every invocation eventually returns or raises, whatever the
\* notifications and the other caller do: the ack wait's elapsed stays below
\* its budget (it grows with every slice and the loop exits when it reaches
\* the budget), and a caller inside the API is eventually outside it.
C25_Terminates ==
    /\ [](\A c \in Callers : task[c].elapsed < timeout)
    /\ \A c \in Callers : (task[c].pc # "idle") ~> (task[c].pc = "idle")

\* C25 witness: a caller is in the last slice of its ack wait with no ack
\* received, while the other caller is inside the API as well.
C25_Witness ==
    \E c \in Callers :
        /\ task[c].pc = "wait"
        /\ task[c].elapsed = timeout - 1
        /\ ~ack_received
        /\ \E o \in Callers \ {c} : task[o].pc # "idle"

====
